---------------------------- MODULE Spec2Model ----------------------------
(***************************************************************************)
(* The init subcommand of the go/v3 plugin                                 *)
(* (pkg/plugins/golang/v3/init.go): Validate, GetScaffolder, PostScaffold  *)
(* and checkDir, driven by the generic runner cmdutil.Run.                 *)
(*                                                                         *)
(* Strings are sequences of character codes (ASCII), so that ToLower,      *)
(* HasPrefix, filepath.Base, the lexical order of filepath.Walk and the    *)
(* DNS-1123 label grammar are computed and not assumed.                    *)
(***************************************************************************)
EXTENDS Integers, Sequences, FiniteSets, TLC

(***************************************************************************)
(* Bounds of the model.                                                    *)
(***************************************************************************)
\* longest project name / directory base name drawn
MaxNameLen == 3
\* deepest entry below the working directory drawn in an initial tree
MaxDepth == 2
\* most entries below the working directory drawn in an initial tree
MaxEntries == 3
\* runs of the pipeline in the same directory (the first and the restarts)
MaxRuns == 2

(***************************************************************************)
(* Strings.                                                                *)
(***************************************************************************)
\* the alphabet names are drawn from: 'a', 'B', '-', '_'
Alphabet == {97, 66, 45, 95}

RECURSIVE SeqsUpTo(_, _)
\* every string over S of length at most n
SeqsUpTo(S, n) ==
    IF n = 0 THEN {<<>>}
    ELSE LET shorter == SeqsUpTo(S, n - 1)
         IN  shorter \cup {Append(s, c) : s \in {t \in shorter : Len(t) = n - 1}, c \in S}

\* the names drawn for --project-name and for the base name of the working directory
Names == SeqsUpTo(Alphabet, MaxNameLen)

\* "." "go.mod" ".git" "HEAD" and the files the scaffold writes
Dot == <<46>>
GoMod == <<103, 111, 46, 109, 111, 100>>
DotGit == <<46, 103, 105, 116>>
HeadFile == <<72, 69, 65, 68>>
Makefile == <<77, 97, 107, 101, 102, 105, 108, 101>>
MainGo == <<109, 97, 105, 110, 46, 103, 111>>
Project == <<80, 82, 79, 74, 69, 67, 84>>

\* strings.HasPrefix(s, ".")
HasDotPrefix(s) == Len(s) >= 1 /\ s[1] = 46

\* unicode.ToLower on one ASCII character
LowerChar(c) == IF c >= 65 /\ c <= 90 THEN c + 32 ELSE c

\* strings.ToLower
ToLower(s) == [i \in 1..Len(s) |-> LowerChar(s[i])]

RECURSIVE StripSlashes(_)
\* filepath.Base, first loop: drop the trailing separators
StripSlashes(p) ==
    IF Len(p) > 0 /\ p[Len(p)] = 47 THEN StripSlashes(SubSeq(p, 1, Len(p) - 1)) ELSE p

RECURSIVE LastElement(_)
\* filepath.Base, second loop: what follows the last separator
LastElement(p) ==
    IF Len(p) = 0 THEN <<>>
    ELSE IF p[Len(p)] = 47 THEN <<>>
    ELSE Append(LastElement(SubSeq(p, 1, Len(p) - 1)), p[Len(p)])

\* filepath.Base(path)
Base(path) ==
    IF path = <<>> THEN Dot
    ELSE LET last == LastElement(StripSlashes(path))
         IN  IF last = <<>> THEN <<47>> ELSE last

RECURSIVE LexLess(_, _)
\* byte-wise string order, the order filepath.Walk visits the names of a directory in
LexLess(s, t) ==
    IF t = <<>> THEN FALSE
    ELSE IF s = <<>> THEN TRUE
    ELSE IF s[1] # t[1] THEN s[1] < t[1]
    ELSE LexLess(Tail(s), Tail(t))

(***************************************************************************)
(* Error values.  An error is a record: kind names the collaborator that   *)
(* produced it (or the format string of fmt.Errorf), val the string it     *)
(* carries, cause the kind of the error it was formatted from.             *)
(***************************************************************************)
Nil == [kind |-> "nil", val |-> <<>>, cause |-> "nil"]

\* the error util.ValidateGoVersion returns
GoVersionError == [kind |-> "ValidateGoVersion", val |-> <<>>, cause |-> "nil"]

\* the error os.Getwd returns
GetwdError == [kind |-> "Getwd", val |-> <<>>, cause |-> "nil"]

\* the error validation.IsDNS1123Label returns
LabelError == [kind |-> "IsDNS1123Label", val |-> <<>>, cause |-> "nil"]

\* the error util.FindCurrentRepo returns
FindRepoError == [kind |-> "FindCurrentRepo", val |-> <<>>, cause |-> "nil"]

\* the error Scaffolder.Scaffold returns
ScaffoldError == [kind |-> "Scaffold", val |-> <<>>, cause |-> "nil"]

\* the error util.RunCmd returns for the k-th command
RunCmdError(k) == [kind |-> "RunCmd", val |-> <<k>>, cause |-> "nil"]

\* errors.New(...) of checkDir
DirNotEmptyError ==
    [kind |-> "only the go.mod and files with the prefix \"(.)\" are allowed before the init",
     val |-> <<>>, cause |-> "nil"]

\* fmt.Errorf(format, err) and fmt.Errorf(format, value, err): a new error value
Errorf(format, value, err) == [kind |-> format, val |-> value, cause |-> err.kind]

(***************************************************************************)
(* The working directory: paths are sequences of entry names below ".",    *)
(* bad holds the paths (the root <<>> included) whose os.Lstat fails.      *)
(***************************************************************************)
\* the parent of a path
Parent(p) == SubSeq(p, 1, Len(p) - 1)

\* FileInfo.Name() of an entry; the root of Walk(".") is named "."
EntryName(p) == IF p = <<>> THEN Dot ELSE p[Len(p)]

RECURSIVE JoinPath(_)
\* filepath.Join of the names of a path below "."
JoinPath(p) ==
    IF p = <<>> THEN Dot
    ELSE IF Len(p) = 1 THEN p[1]
    ELSE JoinPath(Parent(p)) \o <<47>> \o p[Len(p)]

\* the error os.Lstat returns for an entry
LstatError(p) == [kind |-> "lstat", val |-> JoinPath(p), cause |-> "nil"]

\* the names filepath.Walk reads from directory p
ChildNames(tree, p) == {q[Len(q)] : q \in {r \in tree.paths : Len(r) = Len(p) + 1 /\ Parent(r) = p}}

RECURSIVE SortNames(_)
\* readDirNames: the names of a directory, sorted
SortNames(S) ==
    IF S = {} THEN <<>>
    ELSE LET least == CHOOSE s \in S : \A t \in S \ {s} : LexLess(s, t)
         IN  <<least>> \o SortNames(S \ {least})

\* WalkFn without the exemption of go.mod
WalkFnNoGoMod(name, err) ==
    IF err # Nil THEN err
    ELSE IF ~HasDotPrefix(name) THEN DirNotEmptyError
    ELSE Nil

\* the callback checkDir hands to filepath.Walk
WalkFn(name, err) ==
    IF err # Nil THEN err
    ELSE IF name # GoMod /\ ~HasDotPrefix(name) THEN DirNotEmptyError
    ELSE Nil

RECURSIVE WalkChildren(_, _, _)
\* WalkEntry, not descending into the dot-prefixed directories below the root
WalkEntrySkipDotDirs(tree, p) ==
    LET err == WalkFn(EntryName(p), IF p \in tree.bad THEN LstatError(p) ELSE Nil)
    IN  IF err # Nil THEN [visited |-> <<p>>, err |-> err]
        ELSE IF p # <<>> /\ HasDotPrefix(EntryName(p)) THEN [visited |-> <<p>>, err |-> Nil]
        ELSE LET below == WalkChildren(tree, p, SortNames(ChildNames(tree, p)))
             IN  [visited |-> <<p>> \o below.visited, err |-> below.err]

RECURSIVE WalkEntry(_, _)
\* filepath.Walk below entry p: the entries the callback was called on, in order,
\* and the first error the callback returned
\* (names, below, first and rest are drawn from one-element sets: each is
\* computed once, as the code computes it)
WalkEntry(tree, p) ==
    LET err == WalkFn(EntryName(p), IF p \in tree.bad THEN LstatError(p) ELSE Nil)
    IN  IF err # Nil THEN [visited |-> <<p>>, err |-> err]
        ELSE CHOOSE w \in {[visited |-> <<p>> \o below.visited, err |-> below.err] :
                           below \in {WalkChildren(tree, p, names) :
                                         names \in {SortNames(ChildNames(tree, p))}}} : TRUE

WalkChildren(tree, p, names) ==
    IF names = <<>> THEN [visited |-> <<>>, err |-> Nil]
    ELSE CHOOSE w \in {IF first.err # Nil THEN first
                       ELSE CHOOSE v \in {[visited |-> first.visited \o rest.visited,
                                           err |-> rest.err] :
                                          rest \in {WalkChildren(tree, p, Tail(names))}} : TRUE :
                       first \in {WalkEntry(tree, Append(p, names[1]))}} : TRUE

\* filepath.Walk(".", ...)
Walk(tree) == WalkEntry(tree, <<>>)

\* checkDir()
checkDir(tree) == Walk(tree).err

(***************************************************************************)
(* Collaborators of Validate.                                              *)
(***************************************************************************)
\* the longest DNS-1123 label
LabelMaxLength == 63

\* [a-z0-9]
IsLowerAlnum(c) == (c >= 97 /\ c <= 122) \/ (c >= 48 /\ c <= 57)

\* the DNS-1123 label grammar [a-z0-9]([-a-z0-9]*[a-z0-9])? within the length bound
IsLabel(s) ==
    /\ Len(s) >= 1
    /\ Len(s) <= LabelMaxLength
    /\ IsLowerAlnum(s[1])
    /\ IsLowerAlnum(s[Len(s)])
    /\ \A i \in 1..Len(s) : IsLowerAlnum(s[i]) \/ s[i] = 45

\* validation.IsDNS1123Label(value)
IsDNS1123Label(value) == IF IsLabel(value) THEN Nil ELSE LabelError

(***************************************************************************)
(* initSubcommand.Validate.  cfg is p.config, skip is p.skipGoVersionCheck,*)
(* e the environment (what ValidateGoVersion, os.Getwd and FindCurrentRepo *)
(* return), tree the working directory.  The result is the error returned, *)
(* the configuration left behind and the collaborators called, in order.   *)
(***************************************************************************)
\* ResolveRepo, dropping the error of util.FindCurrentRepo
ResolveRepoSwallowError(cfg, e, calls) ==
    IF cfg.Repo = <<>>
    THEN [err |-> Nil, config |-> [cfg EXCEPT !.Repo = e.repo.path],
          calls |-> Append(calls, "FindCurrentRepo")]
    ELSE [err |-> Nil, config |-> cfg, calls |-> calls]

\* ResolveRepo, detecting the repository whatever the flag holds
ResolveRepoAlwaysDetect(cfg, e, calls) ==
    IF e.repo.err # Nil
    THEN [err |-> Errorf("error finding current repository: %v", <<>>, e.repo.err),
          config |-> cfg, calls |-> Append(calls, "FindCurrentRepo")]
    ELSE [err |-> Nil, config |-> [cfg EXCEPT !.Repo = e.repo.path],
          calls |-> Append(calls, "FindCurrentRepo")]

\* lines 131-138: guess the repository if the flag is not set
ResolveRepo(cfg, e, calls) ==
    IF cfg.Repo = <<>>
    THEN IF e.repo.err # Nil
         THEN [err |-> Errorf("error finding current repository: %v", <<>>, e.repo.err),
               config |-> cfg, calls |-> Append(calls, "FindCurrentRepo")]
         ELSE [err |-> Nil, config |-> [cfg EXCEPT !.Repo = e.repo.path],
               calls |-> Append(calls, "FindCurrentRepo")]
    ELSE [err |-> Nil, config |-> cfg, calls |-> calls]

\* ValidateProjectName, testing the lowercase form of the name and keeping the name
ValidateProjectNameLowered(cfg, e, calls) ==
    LET err == IsDNS1123Label(ToLower(cfg.ProjectName))
    IN  IF err # Nil
        THEN [err |-> Errorf("project name (%s) is invalid: %v", cfg.ProjectName, err),
              config |-> cfg, calls |-> Append(calls, "IsDNS1123Label")]
        ELSE ResolveRepo(cfg, e, Append(calls, "IsDNS1123Label"))

\* lines 127-129: the project name must be a DNS-1123 label
ValidateProjectName(cfg, e, calls) ==
    LET err == IsDNS1123Label(cfg.ProjectName)
    IN  IF err # Nil
        THEN [err |-> Errorf("project name (%s) is invalid: %v", cfg.ProjectName, err),
              config |-> cfg, calls |-> Append(calls, "IsDNS1123Label")]
        ELSE ResolveRepo(cfg, e, Append(calls, "IsDNS1123Label"))

\* ResolveProjectName without strings.ToLower
ResolveProjectNameNoLower(cfg, e, calls) ==
    IF cfg.ProjectName = <<>>
    THEN IF e.getwd.err # Nil
         THEN [err |-> Errorf("error getting current directory: %v", <<>>, e.getwd.err),
               config |-> cfg, calls |-> Append(calls, "Getwd")]
         ELSE ValidateProjectName([cfg EXCEPT !.ProjectName = Base(e.getwd.path)],
                                  e, Append(calls, "Getwd"))
    ELSE ValidateProjectName(cfg, e, calls)

\* ResolveProjectName, validating the lowercase form and storing the base name as it is
ResolveProjectNameKeepCase(cfg, e, calls) ==
    IF cfg.ProjectName = <<>>
    THEN IF e.getwd.err # Nil
         THEN [err |-> Errorf("error getting current directory: %v", <<>>, e.getwd.err),
               config |-> cfg, calls |-> Append(calls, "Getwd")]
         ELSE LET r == ValidateProjectName(
                           [cfg EXCEPT !.ProjectName = ToLower(Base(e.getwd.path))],
                           e, Append(calls, "Getwd"))
              IN  [r EXCEPT !.config.ProjectName = Base(e.getwd.path)]
    ELSE ValidateProjectName(cfg, e, calls)

\* lines 119-126: derive the project name from the working directory if it is not set
\* (the name is computed once and stored)
ResolveProjectName(cfg, e, calls) ==
    IF cfg.ProjectName = <<>>
    THEN IF e.getwd.err # Nil
         THEN [err |-> Errorf("error getting current directory: %v", <<>>, e.getwd.err),
               config |-> cfg, calls |-> Append(calls, "Getwd")]
         ELSE CHOOSE r \in {ValidateProjectName([cfg EXCEPT !.ProjectName = name],
                                                e, Append(calls, "Getwd")) :
                            name \in {ToLower(base) : base \in {Base(e.getwd.path)}}} : TRUE
    ELSE ValidateProjectName(cfg, e, calls)

\* ValidateDir, calling checkDir a second time when it failed
ValidateDirRetry(cfg, e, tree, calls) ==
    LET err == checkDir(tree)
    IN  IF err # Nil
        THEN [err |-> checkDir(tree), config |-> cfg,
              calls |-> calls \o <<"checkDir", "checkDir">>]
        ELSE ResolveProjectName(cfg, e, Append(calls, "checkDir"))

\* ValidateDir, formatting checkDir's error into a new one
ValidateDirWrapping(cfg, e, tree, calls) ==
    LET err == checkDir(tree)
    IN  IF err # Nil
        THEN [err |-> Errorf("error checking directory: %v", <<>>, err),
              config |-> cfg, calls |-> Append(calls, "checkDir")]
        ELSE ResolveProjectName(cfg, e, Append(calls, "checkDir"))

\* ValidateDir, storing the derived project name before the directory check
ValidateDirDerivesFirst(cfg, e, tree, calls) ==
    LET err == checkDir(tree)
        derived == IF cfg.ProjectName = <<>> /\ e.getwd.err = Nil
                   THEN [cfg EXCEPT !.ProjectName = ToLower(Base(e.getwd.path))]
                   ELSE cfg
    IN  IF err # Nil
        THEN [err |-> err, config |-> derived, calls |-> Append(calls, "checkDir")]
        ELSE ResolveProjectName(cfg, e, Append(calls, "checkDir"))

\* lines 114-117: the directory check
ValidateDir(cfg, e, tree, calls) ==
    LET err == checkDir(tree)
    IN  IF err # Nil
        THEN [err |-> err, config |-> cfg, calls |-> Append(calls, "checkDir")]
        ELSE ResolveProjectName(cfg, e, Append(calls, "checkDir"))

\* Validate with the directory check before the version check
ValidateDirFirst(cfg, skip, e, tree) ==
    LET err == checkDir(tree)
    IN  IF err # Nil
        THEN [err |-> err, config |-> cfg, calls |-> <<"checkDir">>]
        ELSE IF ~skip
        THEN IF e.goVersion # Nil
             THEN [err |-> e.goVersion, config |-> cfg,
                   calls |-> <<"checkDir", "ValidateGoVersion">>]
             ELSE ResolveProjectName(cfg, e, <<"checkDir", "ValidateGoVersion">>)
        ELSE ResolveProjectName(cfg, e, <<"checkDir">>)

\* Validate()
Validate(cfg, skip, e, tree) ==
    IF ~skip
    THEN IF e.goVersion # Nil
         THEN [err |-> e.goVersion, config |-> cfg, calls |-> <<"ValidateGoVersion">>]
         ELSE ValidateDir(cfg, e, tree, <<"ValidateGoVersion">>)
    ELSE ValidateDir(cfg, e, tree, <<>>)

(***************************************************************************)
(* initSubcommand.GetScaffolder: the handle binds the configuration, the   *)
(* license and the owner; the error is always nil.                         *)
(***************************************************************************)
\* GetScaffolder, refusing a configuration whose project name is not resolved
GetScaffolderChecked(s) ==
    [scaffolder |-> [config |-> s.config, license |-> s.license, owner |-> s.owner],
     err |-> IF s.config.ProjectName = <<>> THEN LabelError ELSE Nil]

GetScaffolder(s) ==
    [scaffolder |-> [config |-> s.config, license |-> s.license, owner |-> s.owner],
     err |-> Nil]

(***************************************************************************)
(* initSubcommand.PostScaffold.  cmdErr[k] is the error util.RunCmd        *)
(* returns for the k-th command if it is run.  calls holds the commands    *)
(* run and the fmt calls, in order.                                        *)
(***************************************************************************)
\* the three commands, in the order of the code
Commands == <<"go get sigs.k8s.io/controller-runtime", "go mod tidy", "make">>

\* fmt.Println("Skipping fetching dependencies.")
SkipLine == [format |-> "Skipping fetching dependencies.", arg |-> ""]

\* HintLine without the command's name
HintLineNoName(commandName) ==
    [format |-> "Next: define a resource with: $ %s create api", arg |-> ""]

\* fmt.Printf("Next: define a resource with:\n$ %s create api\n", p.commandName)
HintLine(commandName) ==
    [format |-> "Next: define a resource with: $ %s create api", arg |-> commandName]

\* PostScaffold with the guard on fetchDeps inverted
PostScaffoldInverted(s, cmdErr) ==
    IF s.fetchDeps
    THEN [err |-> Nil, calls |-> <<"fmt.Println">>, out |-> <<SkipLine>>]
    ELSE IF cmdErr[1] # Nil
    THEN [err |-> cmdErr[1], calls |-> <<Commands[1]>>, out |-> <<>>]
    ELSE IF cmdErr[2] # Nil
    THEN [err |-> cmdErr[2], calls |-> <<Commands[1], Commands[2]>>, out |-> <<>>]
    ELSE IF cmdErr[3] # Nil
    THEN [err |-> cmdErr[3], calls |-> <<Commands[1], Commands[2], Commands[3]>>, out |-> <<>>]
    ELSE [err |-> Nil, calls |-> <<Commands[1], Commands[2], Commands[3], "fmt.Printf">>,
          out |-> <<HintLine(s.commandName)>>]

\* PostScaffold without the test of the first command's error
PostScaffoldNoCheck(s, cmdErr) ==
    IF ~s.fetchDeps
    THEN [err |-> Nil, calls |-> <<"fmt.Println">>, out |-> <<SkipLine>>]
    ELSE IF cmdErr[2] # Nil
    THEN [err |-> cmdErr[2], calls |-> <<Commands[1], Commands[2]>>, out |-> <<>>]
    ELSE IF cmdErr[3] # Nil
    THEN [err |-> cmdErr[3], calls |-> <<Commands[1], Commands[2], Commands[3]>>, out |-> <<>>]
    ELSE [err |-> Nil, calls |-> <<Commands[1], Commands[2], Commands[3], "fmt.Printf">>,
          out |-> <<HintLine(s.commandName)>>]

\* PostScaffold, printing the hint before it runs make
PostScaffoldHintEarly(s, cmdErr) ==
    IF ~s.fetchDeps
    THEN [err |-> Nil, calls |-> <<"fmt.Println">>, out |-> <<SkipLine>>]
    ELSE IF cmdErr[1] # Nil
    THEN [err |-> cmdErr[1], calls |-> <<Commands[1]>>, out |-> <<>>]
    ELSE IF cmdErr[2] # Nil
    THEN [err |-> cmdErr[2], calls |-> <<Commands[1], Commands[2]>>, out |-> <<>>]
    ELSE [err |-> cmdErr[3], calls |-> <<Commands[1], Commands[2], "fmt.Printf", Commands[3]>>,
          out |-> <<HintLine(s.commandName)>>]

\* PostScaffold, running the first command a second time when it failed
PostScaffoldRetry(s, cmdErr) ==
    IF ~s.fetchDeps
    THEN [err |-> Nil, calls |-> <<"fmt.Println">>, out |-> <<SkipLine>>]
    ELSE IF cmdErr[1] # Nil
    THEN [err |-> cmdErr[1], calls |-> <<Commands[1], Commands[1]>>, out |-> <<>>]
    ELSE IF cmdErr[2] # Nil
    THEN [err |-> cmdErr[2], calls |-> <<Commands[1], Commands[2]>>, out |-> <<>>]
    ELSE IF cmdErr[3] # Nil
    THEN [err |-> cmdErr[3], calls |-> <<Commands[1], Commands[2], Commands[3]>>, out |-> <<>>]
    ELSE [err |-> Nil, calls |-> <<Commands[1], Commands[2], Commands[3], "fmt.Printf">>,
          out |-> <<HintLine(s.commandName)>>]

\* PostScaffold()
PostScaffold(s, cmdErr) ==
    IF ~s.fetchDeps
    THEN [err |-> Nil, calls |-> <<"fmt.Println">>, out |-> <<SkipLine>>]
    ELSE IF cmdErr[1] # Nil
    THEN [err |-> cmdErr[1], calls |-> <<Commands[1]>>, out |-> <<>>]
    ELSE IF cmdErr[2] # Nil
    THEN [err |-> cmdErr[2], calls |-> <<Commands[1], Commands[2]>>, out |-> <<>>]
    ELSE IF cmdErr[3] # Nil
    THEN [err |-> cmdErr[3], calls |-> <<Commands[1], Commands[2], Commands[3]>>, out |-> <<>>]
    ELSE [err |-> Nil, calls |-> <<Commands[1], Commands[2], Commands[3], "fmt.Printf">>,
          out |-> <<HintLine(s.commandName)>>]

(***************************************************************************)
(* State.                                                                  *)
(***************************************************************************)
VARIABLES
    sub,         \* the initSubcommand p: config, commandName, license, owner and the flags
    flags,       \* p as the command line bound it (BindFlags, InjectConfig)
    env,         \* what ValidateGoVersion, os.Getwd and FindCurrentRepo return
    dir,         \* the working directory
    dirAtStart,  \* the working directory when the run started
    pc,          \* the phase cmdutil.Run is about to start, or "Done"
    started,     \* the phases started in this run, in order
    ret,         \* what each phase of this run returned
    result,      \* what Run returned
    scaffolder,  \* the handle GetScaffolder returned
    calls,       \* the collaborators called in this run, in order
    walked,      \* the entries checkDir's callback was called on in this run, in order
    out,         \* the lines printed in this run
    cmdErrs,     \* what util.RunCmd returns for each command of this run, if it is run
    runs         \* the runs started in this directory

vars == <<sub, flags, env, dir, dirAtStart, pc, started, ret, result, scaffolder, calls, walked, out, cmdErrs, runs>>

\* the four phases of the lifecycle
Phases == <<"Validate", "GetScaffolder", "Scaffold", "PostScaffold">>

\* a phase that has not returned, and Run before it returns
NotRun == [kind |-> "notrun", val |-> <<>>, cause |-> "nil"]

\* no handle yet
NoScaffolder == [config |-> <<>>, license |-> "", owner |-> ""]

\* the top-level entries the scaffold writes (UpdateContext's description)
ScaffoldFiles == {<<Project>>, <<Makefile>>, <<GoMod>>, <<MainGo>>}

(***************************************************************************)
(* Initial states: the flags and the environment of the first run.         *)
(***************************************************************************)
\* os.Getwd results: "/" and "/w/<name>"
RootDir == <<47>>
Cwd(name) == <<47, 119, 47>> \o name
Cwds == {RootDir} \cup {Cwd(n) : n \in Names \ {<<>>}}

\* the working directory of the default case: "/w/Ba"
DefaultCwd == Cwd(<<66, 97>>)

\* "/w/MyApp"
MyAppCwd == Cwd(<<77, 121, 65, 112, 112>>)

\* the names entries of an initial tree are drawn from
TreeNames == {DotGit, GoMod, HeadFile}

RECURSIVE PathSets(_)
\* the prefix-closed sets of at most n paths of depth at most MaxDepth
PathSets(n) ==
    IF n = 0 THEN {{}}
    ELSE LET smaller == PathSets(n - 1)
         IN  smaller \cup
             UNION {{P \cup {Append(q, nm)} :
                        q \in {<<>>} \cup {r \in P : Len(r) < MaxDepth}, nm \in TreeNames} :
                    P \in smaller}

\* a tree: every entry but the root has its parent, an entry whose Lstat fails has no children
IsTree(t) ==
    /\ \A q \in t.paths : Len(q) >= 1 /\ (Len(q) > 1 => Parent(q) \in t.paths)
    /\ \A b \in t.bad : (b = <<>> \/ b \in t.paths) /\ ~\E q \in t.paths : Len(q) >= 1 /\ Parent(q) = b

\* the initial trees: at most MaxEntries entries, at most one failing Lstat
Trees ==
    {t \in UNION {{[paths |-> P, bad |-> B] : B \in {{}} \cup {{b} : b \in P \cup {<<>>}}} :
                    P \in PathSets(MaxEntries)} : IsTree(t)}

EmptyTree == [paths |-> {}, bad |-> {}]

\* the trees of the combined cases: empty, go.mod, HEAD, an entry .git whose Lstat fails
CoreTrees ==
    {EmptyTree, [paths |-> {<<GoMod>>}, bad |-> {}], [paths |-> {<<HeadFile>>}, bad |-> {}],
     [paths |-> {<<DotGit>>}, bad |-> {<<DotGit>>}]}

\* the --project-name values of the combined cases: unset, "a", "B"
CoreNames == {<<>>, <<97>>, <<66>>}

\* os.Getwd of the combined cases: "/w/MyApp", "/w/_", an error
CoreGetwd ==
    {[path |-> MyAppCwd, err |-> Nil], [path |-> Cwd(<<95>>), err |-> Nil],
     [path |-> <<>>, err |-> GetwdError]}

\* util.FindCurrentRepo: the path "d", or an error
RepoResults == {[path |-> <<100>>, err |-> Nil], [path |-> <<>>, err |-> FindRepoError]}

\* BindFlags and InjectConfig: the flags' defaults, and the values given on the command line
Subcommand(name, repo, fetch, skip) ==
    [config |-> [ProjectName |-> name, Repo |-> repo, Domain |-> "my.domain",
                 ComponentConfig |-> FALSE, Layout |-> "go.kubebuilder.io/v3"],
     commandName |-> "kubebuilder", license |-> "apache2", owner |-> "",
     fetchDeps |-> fetch, skipGoVersionCheck |-> skip]

\* every combination of the flags and the collaborators' outcomes, over the small sets
InitCore ==
    /\ flags \in {Subcommand(n, r, f, s) :
                     n \in CoreNames, r \in {<<>>, <<114>>}, f \in BOOLEAN, s \in BOOLEAN}
    /\ env \in {[goVersion |-> g, getwd |-> w, repo |-> d] :
                   g \in {Nil, GoVersionError}, w \in CoreGetwd, d \in RepoResults}
    /\ dir \in CoreTrees

\* every project name, given or derived from the working directory
InitNames ==
    /\ flags \in {Subcommand(n, <<>>, TRUE, FALSE) : n \in Names}
    /\ env \in {[goVersion |-> Nil, getwd |-> [path |-> w, err |-> Nil],
                   repo |-> [path |-> <<100>>, err |-> Nil]] : w \in Cwds}
    /\ flags.config.ProjectName = <<>> \/ env.getwd.path = DefaultCwd
    /\ dir = EmptyTree

\* every working directory
InitTrees ==
    /\ flags = Subcommand(<<>>, <<>>, TRUE, FALSE)
    /\ env = [goVersion |-> Nil, getwd |-> [path |-> DefaultCwd, err |-> Nil],
               repo |-> [path |-> <<100>>, err |-> Nil]]
    /\ dir \in Trees

Init ==
    /\ InitCore \/ InitNames \/ InitTrees
    /\ sub = flags
    /\ dirAtStart = dir
    /\ pc = "Validate"
    /\ started = <<>>
    /\ ret = [ph \in {Phases[i] : i \in 1..4} |-> NotRun]
    /\ result = NotRun
    /\ scaffolder = NoScaffolder
    /\ calls = <<>>
    /\ walked = <<>>
    /\ out = <<>>
    /\ cmdErrs = [k \in 1..3 |-> Nil]
    /\ runs = 1

(***************************************************************************)
(* cmdutil.Run: Validate, GetScaffolder, Scaffold, PostScaffold, each      *)
(* started only if the one before returned nil.                            *)
(***************************************************************************)
\* Return, going on to the next phase whatever the phase returned
ReturnIgnoringError(phase, err, next) ==
    /\ ret' = [ret EXCEPT ![phase] = err]
    /\ pc' = next
    /\ result' = IF next = "Done" THEN err ELSE result

\* a phase returned err: Run returns it, or goes on to the next phase
Return(phase, err, next) ==
    /\ ret' = [ret EXCEPT ![phase] = err]
    /\ IF err # Nil
       THEN pc' = "Done" /\ result' = err
       ELSE pc' = next /\ result' = IF next = "Done" THEN Nil ELSE result

\* RunValidate, with Validate writing the PROJECT file before it returns
RunValidateLeavesFile ==
    /\ pc = "Validate"
    /\ LET r == Validate(sub.config, sub.skipGoVersionCheck, env, dir)
       IN  /\ sub' = [sub EXCEPT !.config = r.config]
           /\ calls' = calls \o r.calls
           /\ walked' = IF \E i \in 1..Len(r.calls) : r.calls[i] = "checkDir"
                        THEN Walk(dir).visited ELSE <<>>
           /\ Return("Validate", r.err, "GetScaffolder")
    /\ started' = Append(started, "Validate")
    /\ dir' = [dir EXCEPT !.paths = @ \cup {<<Project>>}]
    /\ UNCHANGED <<flags, env, dirAtStart, scaffolder, out, cmdErrs, runs>>

RunValidate ==
    /\ pc = "Validate"
    /\ \E r \in {Validate(sub.config, sub.skipGoVersionCheck, env, dir)} :
           /\ sub' = [sub EXCEPT !.config = r.config]
           /\ calls' = calls \o r.calls
           /\ walked' = IF \E i \in 1..Len(r.calls) : r.calls[i] = "checkDir"
                        THEN Walk(dir).visited ELSE <<>>
           /\ Return("Validate", r.err, "GetScaffolder")
    /\ started' = Append(started, "Validate")
    /\ UNCHANGED <<flags, env, dir, dirAtStart, scaffolder, out, cmdErrs, runs>>

RunGetScaffolder ==
    /\ pc = "GetScaffolder"
    /\ LET r == GetScaffolder(sub)
       IN  /\ scaffolder' = r.scaffolder
           /\ Return("GetScaffolder", r.err, "Scaffold")
    /\ started' = Append(started, "GetScaffolder")
    /\ UNCHANGED <<walked, sub, flags, env, dir, dirAtStart, calls, out, cmdErrs, runs>>

\* Scaffolder.Scaffold: it writes the files, or some of them and fails
RunScaffold ==
    /\ pc = "Scaffold"
    /\ \E written \in SUBSET ScaffoldFiles, err \in {Nil, ScaffoldError} :
           /\ err = Nil => written = ScaffoldFiles
           /\ dir' = [dir EXCEPT !.paths = @ \cup written]
           /\ Return("Scaffold", err, "PostScaffold")
    /\ started' = Append(started, "Scaffold")
    /\ calls' = Append(calls, "Scaffold")
    /\ UNCHANGED <<walked, sub, flags, env, dirAtStart, scaffolder, out, cmdErrs, runs>>

RunPostScaffold ==
    /\ pc = "PostScaffold"
    /\ \E fails \in [1..3 -> BOOLEAN] :
           /\ cmdErrs' = [k \in 1..3 |-> IF fails[k] THEN RunCmdError(k) ELSE Nil]
           /\ LET r == PostScaffold(sub, cmdErrs')
              IN  /\ calls' = calls \o r.calls
                  /\ out' = out \o r.out
                  /\ Return("PostScaffold", r.err, "Done")
    /\ started' = Append(started, "PostScaffold")
    /\ UNCHANGED <<walked, sub, flags, env, dir, dirAtStart, scaffolder, runs>>

\* the command is started again in the same directory, with the same command line
Restart ==
    /\ pc = "Done"
    /\ runs < MaxRuns
    /\ runs' = runs + 1
    /\ sub' = flags
    /\ dirAtStart' = dir
    /\ pc' = "Validate"
    /\ started' = <<>>
    /\ ret' = [ph \in DOMAIN ret |-> NotRun]
    /\ result' = NotRun
    /\ scaffolder' = NoScaffolder
    /\ calls' = <<>>
    /\ walked' = <<>>
    /\ out' = <<>>
    /\ cmdErrs' = [k \in 1..3 |-> Nil]
    /\ UNCHANGED <<flags, env, dir>>

Next == RunValidate \/ RunGetScaffolder \/ RunScaffold \/ RunPostScaffold \/ Restart

Spec == Init /\ [][Next]_vars

\* every call Run makes returns: a phase that has been reached is carried out
LiveSpec ==
    /\ Init
    /\ [][Next]_vars
    /\ WF_vars(RunValidate)
    /\ WF_vars(RunGetScaffolder)
    /\ WF_vars(RunScaffold)
    /\ WF_vars(RunPostScaffold)

(***************************************************************************)
(* Properties.                                                             *)
(***************************************************************************)
\* the elements of a sequence
Range(q) == {q[i] : i \in 1..Len(q)}

\* the external commands run in this run, in order
CommandsRun == SelectSeq(calls, LAMBDA c : c \in Range(Commands))

\* the phase has returned an error
Failed(phase) == ret[phase] # Nil /\ ret[phase] # NotRun

\* C1: in a run the phases start in the order Validate, GetScaffolder, Scaffold,
\* PostScaffold, each at most once, and a phase starts only if every phase
\* before it returned nil.
C1_PhasesInOrder ==
    /\ Len(started) <= 4
    /\ \A i \in 1..Len(started) : started[i] = Phases[i]
    /\ \A i \in 1..Len(started) : \A j \in 1..(i - 1) : ret[Phases[j]] = Nil

\* a run ended by a failing Scaffold, PostScaffold never started
C1_Witness ==
    /\ pc = "Done"
    /\ started = <<"Validate", "GetScaffolder", "Scaffold">>
    /\ ret["Scaffold"] = ScaffoldError
    /\ result = ScaffoldError

\* C2 as stated: after a run that failed, checkDir rejects the directory only if it
\* rejected the directory the run started in (no entry the run left behind makes
\* the Precondition Checker reject a restart).
C2_RestartNotRejected ==
    (pc = "Done" /\ result # Nil) => (checkDir(dir) # Nil => checkDir(dirAtStart) # Nil)

\* C2 amended: a run that failed in Validate (toolchain check, directory check,
\* metadata resolution) leaves the directory as it found it, so the checker
\* answers a restart as it answered the failed run; a run that failed in a
\* post-scaffold command leaves the scaffold's files, which the checker rejects.
C2_ValidateFailureKeepsDir ==
    /\ (pc = "Done" /\ Failed("Validate")) =>
           (dir = dirAtStart /\ checkDir(dir) = checkDir(dirAtStart))
    /\ (pc = "Done" /\ Failed("PostScaffold")) =>
           (ScaffoldFiles \subseteq dir.paths /\ checkDir(dir) = DirNotEmptyError)

\* a restarted run, after a run that failed in repository detection, is let
\* through by the checker and fails in repository detection again
C2_Witness ==
    /\ runs = 2
    /\ pc = "Done"
    /\ ret["Validate"] = Errorf("error finding current repository: %v", <<>>, FindRepoError)
    /\ "checkDir" \in Range(calls)

\* the name is go.mod or starts with a dot
AllowedName(n) == n = GoMod \/ HasDotPrefix(n)

\* every entry of the tree, at every depth, is go.mod or dot-prefixed
OnlyAllowed(t) == \A q \in t.paths : AllowedName(q[Len(q)])

\* Validate called checkDir in this run
CheckDirRan == "checkDir" \in Range(calls)

\* checkDir returned an error in this run: Validate returned right after it
CheckDirFailed ==
    /\ CheckDirRan
    /\ started = <<"Validate">>
    /\ pc = "Done"
    /\ calls[Len(calls)] = "checkDir"

\* checkDir's answers to a tree, as C3 states them
CheckDirAnswers(t) ==
    /\ OnlyAllowed(t) => ~CheckDirFailed
    /\ ~OnlyAllowed(t) => (CheckDirFailed /\ ret["Validate"] = DirNotEmptyError)

\* C3 as stated: checkDir returns nil for every directory holding only dot-prefixed
\* entries and go.mod, and the DirectoryNotEmpty error for every directory holding
\* another entry.
C3_CheckDirByNames == CheckDirRan => CheckDirAnswers(dirAtStart)

\* the walk meets no entry whose Lstat fails
NoLstatErrorMet(t) == \A b \in t.bad : b \notin Range(Walk(t).visited)

\* C3 amended: provided the walk meets no filesystem error, checkDir returns nil
\* for every directory holding only dot-prefixed entries and go.mod, and the
\* DirectoryNotEmpty error for every directory holding another entry.
C3_CheckDirByNamesNoIOError ==
    (CheckDirRan /\ NoLstatErrorMet(dirAtStart)) => CheckDirAnswers(dirAtStart)

\* checkDir rejected a readable directory that holds go.mod and HEAD
C3_Witness ==
    /\ CheckDirFailed
    /\ dirAtStart.bad = {}
    /\ <<GoMod>> \in dirAtStart.paths
    /\ <<HeadFile>> \in dirAtStart.paths
    /\ ret["Validate"] = DirNotEmptyError

\* C4: PostScaffold called with fetchDeps = false runs no external command,
\* returns nil and does not print the next-step hint.
C4_NoFetchNoCommands ==
    ("PostScaffold" \in Range(started) /\ ~sub.fetchDeps) =>
        /\ ret["PostScaffold"] = Nil
        /\ CommandsRun = <<>>
        /\ HintLine(sub.commandName) \notin Range(out)

\* a full run with --fetch-deps=false
C4_Witness ==
    /\ pc = "Done"
    /\ started = Phases
    /\ ~sub.fetchDeps
    /\ out = <<SkipLine>>

\* C5: in PostScaffold with fetchDeps = true, if the k-th command is the first to
\* fail, the commands run are exactly the first k, each once, the hint is not
\* printed and PostScaffold returns the k-th command's error.
C5_FirstFailureStops ==
    ("PostScaffold" \in Range(started) /\ sub.fetchDeps) =>
        \A k \in 1..3 :
            (cmdErrs[k] # Nil /\ \A j \in 1..(k - 1) : cmdErrs[j] = Nil) =>
                /\ CommandsRun = SubSeq(Commands, 1, k)
                /\ HintLine(sub.commandName) \notin Range(out)
                /\ ret["PostScaffold"] = cmdErrs[k]

\* go get fails, and go mod tidy and make would fail too
C5_Witness ==
    /\ pc = "Done"
    /\ started = Phases
    /\ sub.fetchDeps
    /\ \A k \in 1..3 : cmdErrs[k] = RunCmdError(k)
    /\ result = RunCmdError(1)

\* C6: after Validate returned nil, a second call in the same environment (the
\* directory as the run found it) returns nil and leaves every field of the
\* configuration as the first call left it.
C6_ValidateIdempotent ==
    (ret["Validate"] = Nil /\ dir = dirAtStart) =>
        LET again == Validate(sub.config, sub.skipGoVersionCheck, env, dir)
        IN  again.err = Nil /\ again.config = sub.config

\* "myapp"
MyApp == <<109, 121, 97, 112, 112>>

\* Validate returned nil after deriving the name and detecting the repository
C6_Witness ==
    /\ pc = "GetScaffolder"
    /\ flags.config.ProjectName = <<>>
    /\ flags.config.Repo = <<>>
    /\ sub.config.ProjectName = MyApp
    /\ sub.config.Repo = <<100>>

\* n is the lowercase form of the base name of path: the characters after the last
\* separator, the upper-case letters replaced by their lower-case ones
IsLowerBaseOf(n, path) ==
    IF path = RootDir THEN n = <<47>>
    ELSE /\ Len(n) >= 1
         /\ Len(n) < Len(path)
         /\ path[Len(path) - Len(n)] = 47
         /\ \A i \in 1..Len(n) :
                LET c == path[Len(path) - Len(n) + i]
                IN  /\ c # 47
                    /\ n[i] = IF c \in 65..90 THEN c + 32 ELSE c

\* C7: a project name unset when Validate starts is resolved, once the earlier
\* checks pass and os.Getwd has named the working directory, to the lowercase
\* form of the working directory's base name ("MyApp" gives "myapp"); a project
\* name given by the user is never changed.
C7_ProjectNameResolution ==
    "Validate" \in Range(started) =>
        /\ flags.config.ProjectName # <<>> => sub.config.ProjectName = flags.config.ProjectName
        /\ (flags.config.ProjectName = <<>> /\ "Getwd" \in Range(calls) /\ env.getwd.err = Nil) =>
               /\ IsLowerBaseOf(sub.config.ProjectName, env.getwd.path)
               /\ env.getwd.path = MyAppCwd => sub.config.ProjectName = MyApp

\* the name was unset in /w/MyApp and Validate has resolved it
C7_Witness ==
    /\ "Validate" \in Range(started)
    /\ flags.config.ProjectName = <<>>
    /\ env.getwd.path = MyAppCwd
    /\ "Getwd" \in Range(calls)
    /\ sub.config.ProjectName = MyApp

\* Validate got past the toolchain check and the directory check
PastDirCheck == CheckDirRan /\ ~CheckDirFailed

\* the InvalidProjectName error, carrying the name
InvalidProjectName(name) == Errorf("project name (%s) is invalid: %v", name, LabelError)

\* C8 as stated: once the toolchain and directory checks pass, Validate returns nil
\* only if the project name is a DNS-1123 label, and returns InvalidProjectName
\* carrying the name whenever the name is not one.
C8_LabelDecidesValidate ==
    PastDirCheck =>
        /\ ret["Validate"] = Nil => IsLabel(sub.config.ProjectName)
        /\ ~IsLabel(sub.config.ProjectName) =>
               ret["Validate"] = InvalidProjectName(sub.config.ProjectName)

\* C8 amended: as C8, except that when the name is unset and os.Getwd fails the
\* name stays unset and Validate returns the error formatted from os.Getwd's.
C8_LabelDecidesValidateButGetwd ==
    PastDirCheck =>
        /\ ret["Validate"] = Nil => IsLabel(sub.config.ProjectName)
        /\ ~IsLabel(sub.config.ProjectName) =>
               IF sub.config.ProjectName = <<>>
               THEN /\ env.getwd.err # Nil
                    /\ ret["Validate"] =
                           Errorf("error getting current directory: %v", <<>>, env.getwd.err)
               ELSE ret["Validate"] = InvalidProjectName(sub.config.ProjectName)

\* the user gave the name "-a" and Validate returned InvalidProjectName with it
C8_Witness ==
    /\ PastDirCheck
    /\ flags.config.ProjectName = <<45, 97>>
    /\ ret["Validate"] = InvalidProjectName(<<45, 97>>)

LastCall == calls[Len(calls)]

\* the errors the collaborator that failed in Validate can have produced
CollaboratorErrors ==
    IF LastCall = "ValidateGoVersion" THEN {env.goVersion}
    ELSE IF LastCall = "checkDir"
    THEN {DirNotEmptyError} \cup {LstatError(b) : b \in dirAtStart.bad}
    ELSE IF LastCall = "Getwd" THEN {env.getwd.err}
    ELSE IF LastCall = "IsDNS1123Label" THEN {LabelError}
    ELSE {env.repo.err}

\* PostScaffold returned the error of a command that failed
PostScaffoldErrorUnmodified ==
    Failed("PostScaffold") => \E k \in 1..3 : cmdErrs[k] # Nil /\ ret["PostScaffold"] = cmdErrs[k]

\* C10 as stated: the error Validate or PostScaffold returns is the error value the
\* failing collaborator produced, not wrapped and not rewritten.
C10_ErrorsUnmodified ==
    /\ Failed("Validate") => ret["Validate"] \in CollaboratorErrors
    /\ PostScaffoldErrorUnmodified

\* C10 amended: the errors of the toolchain version check, the directory walk and
\* the external commands are returned as they are; the errors of os.Getwd, of
\* label validation and of repository detection are returned as new errors
\* formatted from them.
C10_ErrorsUnmodifiedOrFormatted ==
    /\ Failed("Validate") =>
           IF LastCall \in {"ValidateGoVersion", "checkDir"}
           THEN ret["Validate"] \in CollaboratorErrors
           ELSE IF LastCall = "Getwd"
           THEN ret["Validate"] =
                    Errorf("error getting current directory: %v", <<>>, env.getwd.err)
           ELSE IF LastCall = "IsDNS1123Label"
           THEN ret["Validate"] = InvalidProjectName(sub.config.ProjectName)
           ELSE ret["Validate"] =
                    Errorf("error finding current repository: %v", <<>>, env.repo.err)
    /\ PostScaffoldErrorUnmodified

\* Validate returned the error of the Lstat of .git as the walk reported it
C10_Witness ==
    /\ pc = "Done"
    /\ LastCall = "checkDir"
    /\ ret["Validate"] = LstatError(<<DotGit>>)
    /\ result = LstatError(<<DotGit>>)

\* the collaborators of Validate, in the order of the code
ValidateSteps == <<"ValidateGoVersion", "checkDir", "Getwd", "IsDNS1123Label", "FindCurrentRepo">>

\* the collaborators Validate called in this run, in order
ValidateCalls == SelectSeq(calls, LAMBDA c : c \in Range(ValidateSteps))

\* the position of a collaborator in the order of the code
StepIndex(c) == CHOOSE i \in 1..Len(ValidateSteps) : ValidateSteps[i] = c

\* the number of times c was called in this run
Count(c) == Cardinality({i \in 1..Len(calls) : calls[i] = c})

\* the flags' defaults: fetch-deps true, project name and repo unset, version check not skipped
DefaultFlags ==
    /\ flags.fetchDeps
    /\ ~flags.skipGoVersionCheck
    /\ flags.config.ProjectName = <<>>
    /\ flags.config.Repo = <<>>

\* no collaborator of this run has returned an error
CollaboratorsSucceed ==
    /\ env.goVersion = Nil
    /\ dirAtStart.bad = {}
    /\ env.getwd.err = Nil
    /\ IsDNS1123Label(sub.config.ProjectName) = Nil
    /\ env.repo.err = Nil
    /\ ret["Scaffold"] # ScaffoldError
    /\ \A k \in 1..3 : cmdErrs[k] = Nil

\* C11: from an empty working directory, with the flags' defaults, a working
\* repository context and collaborators that succeed, a run ends with nil from
\* Validate, GetScaffolder, Scaffold and PostScaffold and has printed the
\* next-step hint with the invoking command's name.
C11_EndToEnd ==
    (pc = "Done" /\ DefaultFlags /\ dirAtStart = EmptyTree /\ CollaboratorsSucceed) =>
        /\ \A i \in 1..4 : ret[Phases[i]] = Nil
        /\ result = Nil
        /\ out = <<[format |-> "Next: define a resource with: $ %s create api",
                     arg |-> flags.commandName]>>
        /\ flags.commandName = "kubebuilder"

\* the run of the defaults in the empty directory /w/MyApp has ended
C11_Witness ==
    /\ pc = "Done"
    /\ runs = 1
    /\ DefaultFlags
    /\ dirAtStart = EmptyTree
    /\ CollaboratorsSucceed
    /\ env.getwd.path = MyAppCwd
    /\ started = Phases
    /\ result = Nil

\* C12: inside Validate the collaborators are called in the order version check,
\* directory check, name resolution and validation, repository detection, each
\* at most once and only if every earlier one succeeded; the version check is
\* called first unless it is skipped, and then never; after a failure of the
\* project name the repository detection is not called.
C12_ValidateOrder ==
    "Validate" \in Range(started) =>
        /\ \A i \in 1..Len(ValidateCalls) : \A j \in 1..(i - 1) :
               StepIndex(ValidateCalls[j]) < StepIndex(ValidateCalls[i])
        /\ IF sub.skipGoVersionCheck
           THEN Count("ValidateGoVersion") = 0 /\ ValidateCalls[1] = "checkDir"
           ELSE ValidateCalls[1] = "ValidateGoVersion"
        /\ CheckDirRan => (sub.skipGoVersionCheck \/ env.goVersion = Nil)
        /\ Count("Getwd") + Count("IsDNS1123Label") > 0 =>
               (CheckDirRan /\ checkDir(dirAtStart) = Nil)
        /\ Count("IsDNS1123Label") > 0 =>
               (flags.config.ProjectName # <<>> \/ (Count("Getwd") = 1 /\ env.getwd.err = Nil))
        /\ Count("FindCurrentRepo") > 0 =>
               (Count("IsDNS1123Label") = 1 /\ IsLabel(sub.config.ProjectName))
        /\ (Failed("Validate") /\ LastCall \in {"Getwd", "IsDNS1123Label"}) =>
               Count("FindCurrentRepo") = 0

\* Validate called all five collaborators and returned nil
C12_Witness ==
    /\ pc = "GetScaffolder"
    /\ calls = ValidateSteps
    /\ ret["Validate"] = Nil

\* C13 as stated: in every run checkDir is the first collaborator called.
C13_CheckDirFirst == calls # <<>> => calls[1] = "checkDir"

\* C13 amended: in every run checkDir is called before every other collaborator
\* but the toolchain version check, which, unless skipped, is called right before
\* it; checkDir is called at most once, and its failure ends the run with its error.
C13_CheckDirFirstButVersionCheck ==
    /\ calls # <<>> =>
           \/ calls[1] = "checkDir"
           \/ /\ ~sub.skipGoVersionCheck
              /\ calls[1] = "ValidateGoVersion"
              /\ Len(calls) >= 2 => calls[2] = "checkDir"
    /\ Count("checkDir") <= 1
    /\ (CheckDirRan /\ checkDir(dirAtStart) # Nil) =>
           /\ pc = "Done"
           /\ started = <<"Validate">>
           /\ LastCall = "checkDir"
           /\ result = checkDir(dirAtStart)

\* the version check passed, checkDir failed and the run ended with its error
C13_Witness ==
    /\ pc = "Done"
    /\ calls = <<"ValidateGoVersion", "checkDir">>
    /\ result = DirNotEmptyError

\* C14: checkDir inspects the entries at every depth: an entry that is neither
\* go.mod nor dot-prefixed makes it fail wherever it sits, also inside a
\* dot-prefixed directory; go.mod is accepted at every depth; the walk stops at
\* the first entry that is rejected.
C14_CheckDirRecursive ==
    CheckDirRan =>
        /\ ~OnlyAllowed(dirAtStart) => CheckDirFailed
        /\ (OnlyAllowed(dirAtStart) /\ dirAtStart.bad = {}) =>
               (~CheckDirFailed /\ Range(walked) = dirAtStart.paths \cup {<<>>})
        /\ \A i \in 1..(Len(walked) - 1) :
               AllowedName(EntryName(walked[i])) /\ walked[i] \notin dirAtStart.bad
        /\ \A i \in 1..Len(walked) : \A j \in 1..(i - 1) : walked[i] # walked[j]
        /\ CheckDirFailed =>
               LET last == walked[Len(walked)]
               IN  /\ ~AllowedName(EntryName(last)) \/ last \in dirAtStart.bad
                   /\ last \notin dirAtStart.bad => ret["Validate"] = DirNotEmptyError

\* checkDir failed on HEAD inside .git, next to a go.mod inside .git
C14_Witness ==
    /\ dirAtStart = [paths |-> {<<DotGit>>, <<DotGit, HeadFile>>, <<DotGit, GoMod>>}, bad |-> {}]
    /\ CheckDirFailed
    /\ ret["Validate"] = DirNotEmptyError
    /\ walked = << <<>>, <<DotGit>>, <<DotGit, HeadFile>> >>

\* the RepositoryDetectionFailed error
RepositoryDetectionFailed == Errorf("error finding current repository: %v", <<>>, FindRepoError)

\* C15: a repository identifier given when Validate starts is never detected and
\* is unchanged after Validate; an empty one becomes the detected value when
\* detection succeeds; when detection fails Validate returns
\* RepositoryDetectionFailed and the identifier stays empty.
C15_RepoResolution ==
    "Validate" \in Range(started) =>
        /\ flags.config.Repo # <<>> =>
               (Count("FindCurrentRepo") = 0 /\ sub.config.Repo = flags.config.Repo)
        /\ (flags.config.Repo = <<>> /\ Count("FindCurrentRepo") = 0) => sub.config.Repo = <<>>
        /\ (flags.config.Repo = <<>> /\ Count("FindCurrentRepo") > 0) =>
               IF env.repo.err = Nil
               THEN ret["Validate"] = Nil /\ sub.config.Repo = env.repo.path
               ELSE ret["Validate"] = RepositoryDetectionFailed /\ sub.config.Repo = <<>>
        /\ (ret["Validate"] = Nil /\ flags.config.Repo = <<>>) => Count("FindCurrentRepo") = 1

\* Validate returned nil with the repository "r" the user gave, detection would have failed
C15_Witness ==
    /\ pc = "GetScaffolder"
    /\ flags.config.Repo = <<114>>
    /\ sub.config.Repo = <<114>>
    /\ env.repo.err = FindRepoError
    /\ Count("FindCurrentRepo") = 0

\* PostScaffold ran no command: dependency fetching was skipped
SkipCase == ~sub.fetchDeps /\ CommandsRun = <<>>

\* PostScaffold ran the three commands in order and none failed
FullCase == sub.fetchDeps /\ CommandsRun = Commands /\ \A k \in 1..3 : cmdErrs[k] = Nil

\* the next-step hint has been printed
HintPrinted ==
    \E i \in 1..Len(out) :
        out[i] = [format |-> "Next: define a resource with: $ %s create api",
                  arg |-> sub.commandName]

\* C16: PostScaffold returns nil in exactly two cases: fetchDeps is false and no
\* command ran, or fetchDeps is true and the three commands ran once each, in
\* order, and succeeded; the hint is printed exactly in the second case, after
\* the third command; a run that ends with nil ran fewer than three commands
\* only when dependency fetching was skipped.
C16_PostScaffoldOk ==
    "PostScaffold" \in Range(started) =>
        /\ ret["PostScaffold"] = Nil <=> (SkipCase \/ FullCase)
        /\ HintPrinted <=> FullCase
        /\ Count("fmt.Printf") = IF FullCase THEN 1 ELSE 0
        /\ FullCase => (calls[Len(calls)] = "fmt.Printf" /\ calls[Len(calls) - 1] = Commands[3])
        /\ \A k \in 1..3 : Count(Commands[k]) <= 1
        /\ (pc = "Done" /\ result = Nil /\ Len(CommandsRun) < 3) => ~sub.fetchDeps

\* a full run whose three commands succeeded and which printed the hint last
C16_Witness ==
    /\ pc = "Done"
    /\ result = Nil
    /\ FullCase
    /\ HintPrinted
    /\ calls[Len(calls)] = "fmt.Printf"

\* GetScaffolder succeeds on the configuration as given and as it is now, and
\* only the Scaffold step returns a scaffolding error
GetScaffolderTotal ==
    /\ \A s \in {sub, flags} :
           (GetScaffolder(s).err = Nil /\ GetScaffolder(s).scaffolder.config = s.config)
    /\ ret["GetScaffolder"] \in {Nil, NotRun}
    /\ (result = ScaffoldError => ret["Scaffold"] = ScaffoldError)
    /\ \A ph \in {"Validate", "GetScaffolder", "PostScaffold"} : ret[ph] # ScaffoldError

\* C17: GetScaffolder returns a nil error and a handle bound to the configuration
\* for every configuration, the one the command line gave (Validate not run,
\* or failing) included; the GetScaffolder step calls no collaborator, prints
\* nothing and leaves the configuration and the directory unchanged; a
\* scaffolding error is returned only by the Scaffold step.
C17_GetScaffolderPure ==
    /\ []GetScaffolderTotal
    /\ [][pc = "GetScaffolder" =>
              /\ sub' = sub
              /\ calls' = calls
              /\ dir' = dir
              /\ out' = out
              /\ ret'["GetScaffolder"] = Nil
              /\ scaffolder'.config = sub.config
              /\ pc' = "Scaffold"]_vars

\* GetScaffolder returned nil and the handle; nothing but Validate's calls was made
C17_Witness ==
    /\ pc = "Scaffold"
    /\ ret["GetScaffolder"] = Nil
    /\ scaffolder = GetScaffolder(sub).scaffolder
    /\ Count("Scaffold") = 0
    /\ flags.config.ProjectName = <<>>
    /\ sub.config.ProjectName # <<>>

\* the fields Validate never assigns are the ones the command line gave
ValidateFrame ==
    /\ sub.config.Domain = flags.config.Domain
    /\ sub.config.ComponentConfig = flags.config.ComponentConfig
    /\ sub.config.Layout = flags.config.Layout
    /\ sub.license = flags.license
    /\ sub.owner = flags.owner
    /\ sub.fetchDeps = flags.fetchDeps
    /\ sub.skipGoVersionCheck = flags.skipGoVersionCheck
    /\ sub.commandName = flags.commandName

\* C18: Validate never changes the domain, the component-config flag, the layout
\* or the options; when it fails in the version check or the directory check
\* the configuration is the one it was given; after any failing Validate the
\* repository is unchanged, and the project name differs only if it was unset
\* and label validation or repository detection failed, and then it is the
\* lowercase base name of the working directory.
C18_ValidateErrorFrame ==
    /\ ValidateFrame
    /\ Failed("Validate") =>
           /\ LastCall \in {"ValidateGoVersion", "checkDir", "Getwd"} => sub = flags
           /\ sub.config.Repo = flags.config.Repo
           /\ sub.config.ProjectName # flags.config.ProjectName =>
                  /\ flags.config.ProjectName = <<>>
                  /\ LastCall \in {"IsDNS1123Label", "FindCurrentRepo"}
           /\ (flags.config.ProjectName = <<>> /\ LastCall \in {"IsDNS1123Label", "FindCurrentRepo"}) =>
                  sub.config.ProjectName = ToLower(Base(env.getwd.path))

\* repository detection failed after the project name was derived and stored
C18_Witness ==
    /\ Failed("Validate")
    /\ LastCall = "FindCurrentRepo"
    /\ flags.config.ProjectName = <<>>
    /\ sub.config.ProjectName = MyApp
    /\ sub.config.Repo = <<>>

\* the position of a phase in a run, the end of the run last
PcIndex(p) == CHOOSE i \in 1..5 : (Phases \o <<"Done">>)[i] = p

\* the collaborators of a run
Collaborators == Range(ValidateSteps) \cup {"Scaffold"} \cup Range(Commands)

\* in this run no collaborator was called twice, no phase was started twice or
\* out of order, at most one phase returned an error, and the run's outcome
\* is nil or that error
RunBounded ==
    /\ \A c \in Collaborators : Count(c) <= 1
    /\ Len(CommandsRun) <= 3
    /\ started = SubSeq(Phases, 1, Len(started))
    /\ Cardinality({ph \in Range(Phases) : Failed(ph)}) <= 1
    /\ pc = "Done" =>
           /\ result # NotRun
           /\ result # Nil => \E ph \in Range(Phases) : Failed(ph) /\ result = ret[ph]
           /\ result = Nil => \A ph \in Range(Phases) : ret[ph] = Nil

\* C19: provided every call returns, every run reaches its end, with nil or a
\* single error, after calling each collaborator at most once (one version
\* check, one directory walk, one label validation, one repository detection,
\* one scaffold execution, three external commands), and a run never goes back
\* to an earlier phase.
C19_Termination ==
    /\ []RunBounded
    /\ [][pc # "Done" => PcIndex(pc') > PcIndex(pc)]_vars
    /\ (pc # "Done") ~> (pc = "Done")

\* a run that ended with nil after calling every collaborator once
C19_Witness ==
    /\ pc = "Done"
    /\ result = Nil
    /\ \A c \in Collaborators : Count(c) = 1
    /\ started = Phases

=============================================================================
